---- MODULE Spec2Model ----
(***************************************************************************)
(* Model of nasumilu/cache-component: CacheItem, CachePool,                *)
(* NamespaceCachePool, ChainedCachePool and the storage backends, in the   *)
(* three revisions of the cache module the source holds:                   *)
(*   "tuple"  : src/src/cache.ts lines 262-545, envelope [value, expiry?]  *)
(*   "object" : src/src/cache.ts lines 1-260, envelope                     *)
(*              {value, expiresAt, hit}                                    *)
(*   "class"  : src/unnamed/part_000, CacheItem class, envelope            *)
(*              {value, expiry}                                            *)
(* Strings (keys, namespaces) are sequences of one-character strings, so   *)
(* that concatenation and String.includes are computed.  JavaScript values *)
(* are tagged pairs, so that JSON.stringify / JSON.parse, `??`, `<` and    *)
(* isFinite are computed on null, undefined and Infinity as JavaScript     *)
(* computes them.  Cached payloads are JSON primitives (strings).          *)
(* The specifications share the variables:                                *)
(*   Spec      : two NamespaceCachePools on one MemoryStorage, with the    *)
(*               clock                                                     *)
(*   SpecPools : a ChainedCachePool over the two pools, on one store or    *)
(*               on two, on each storage backend                           *)
(*   SpecItem  : one CacheItem, with the clock                             *)
(*   SpecUnix  : Spec with the expiry read as seconds of the wall clock    *)
(*   SpecStore : setItem, removeItem and clear on one storage backend      *)
(*   SpecDotted: the chained pool with keys whose local part has a dot     *)
(*   SpecDuplicate: the chained pool over two pools of one namespace       *)
(*   SpecAsync : get with asynchronous callbacks                           *)
(*   SpecText  : get on a store that holds any string                      *)
(*   SpecFaulty: CachePool on a store whose operations may fail            *)
(*   SpecBoth  : a MemoryStorage and a MapStorage given the same calls     *)
(***************************************************************************)
EXTENDS Integers, Sequences, FiniteSets, TLC

VARIABLES rev, storage, now, last,
          shared, backend, cachePools, stores, clast,
          citem, ilast,
          pending

\* a ChainedCachePool over the two pools, on one store or on two, and what
\* its caller observed last
chainVars == <<shared, backend, cachePools, stores, clast>>
\* one CacheItem instance and what its caller observed last
itemVars == <<citem, ilast>>

\* pending: the asynchronous callbacks that were called and have not yet
\* finished, each by the storage key of its get, in the order of their calls
vars == <<rev, storage, now, last, chainVars, itemVars, pending>>

----------------------------------------------------------------------------
(* Bounds of the model *)

\* the clock (milliseconds, Date.getTime()) runs from StartNow to MaxNow
StartNow == 2
TimeSpan == 2
MaxNow == StartNow + TimeSpan

----------------------------------------------------------------------------
(* JavaScript values *)

Num(n) == <<"num", n>>
Inf == <<"inf", 0>>
Undef == <<"undef", 0>>
Null == <<"null", 0>>
True == <<"bool", 1>>
False == <<"bool", 0>>
Str(i) == <<"str", i>>

Payloads == {Str(1), Str(2)}

IsNum(v) == v[1] = "num"

\* JSON.stringify of one array element or object field: Infinity (and, in an
\* array, undefined) is written as null
ToJSON(v) == IF v \in {Inf, Undef} THEN Null ELSE v

\* a ?? b
Coalesce(a, b) == IF a \in {Null, Undef} THEN b ELSE a

\* a < n for a number n: null converts to 0, undefined to NaN
LessThan(a, n) ==
    CASE IsNum(a) -> a[2] < n
      [] a = Null -> 0 < n
      [] OTHER -> FALSE

\* the global isFinite(a): null converts to 0
IsFinite(a) == IsNum(a) \/ a = Null

----------------------------------------------------------------------------
(* Strings *)

Dot == <<".">>
\* the namespaces of the two pools: neither holds a dot, and the first is a
\* part of the second, as "local" is of "app-local"
NsA == <<"a">>
NsB == <<"b", "a">>
\* the local keys used through the pools
LocalKeys == {<<"k">>}

\* String.prototype.includes
Includes(s, t) ==
    \E i \in 0..(Len(s) - Len(t)) : SubSeq(s, i + 1, i + Len(t)) = t

----------------------------------------------------------------------------
(* MemoryStorage: an array of {key, value} entries *)

Entry(k, v) == [key |-> k, value |-> v]

\* Array.findIndex, 1-based; 0 stands for -1
FindIndexFor(s, key) ==
    IF \E i \in 1..Len(s) : s[i].key = key
    THEN CHOOSE i \in 1..Len(s) :
            s[i].key = key /\ \A j \in 1..(i - 1) : s[j].key # key
    ELSE 0

\* getItem: <<>> stands for null, <<v>> for the string v
StorageGetItem(s, key) ==
    LET index == FindIndexFor(s, key)
    IN IF index # 0 THEN <<s[index].value>> ELSE <<>>

StorageSetItem(s, key, value) ==
    LET index == FindIndexFor(s, key)
    IN IF index # 0
       THEN [s EXCEPT ![index].value = value]
       ELSE Append(s, Entry(key, value))

RemoveItemSkipsFirst(s, key) ==
    LET index == FindIndexFor(s, key)
    IN IF index > 1
       THEN SubSeq(s, 1, index - 1) \o SubSeq(s, index + 1, Len(s))
       ELSE s

StorageRemoveItem(s, key) ==
    LET index == FindIndexFor(s, key)
    IN IF index # 0
       THEN SubSeq(s, 1, index - 1) \o SubSeq(s, index + 1, Len(s))
       ELSE s

StorageClear(s) == <<>>

StorageLength(s) == Len(s)

\* key(index), 0-based as in the source: this.#storage[index]?.key ?? null,
\* <<>> for null and <<k>> for the key k
StorageKey(s, index) ==
    IF index + 1 \in 1..Len(s) THEN <<s[index + 1].key>> ELSE <<>>

----------------------------------------------------------------------------
(* What the callback does: the payload it returns and the expiry it sets *)

\* the point in time a callback sets as expiry: the clock starts before it,
\* reaches it and passes it
ExpiryPoint == StartNow + 1

\* the callback sets no expiry, sets Infinity, or sets the point in time
TtlChoices == {"none", "never", "point"}
FnArgs == [val : Payloads, ttl : TtlChoices]

----------------------------------------------------------------------------
(* Revision "tuple": CacheItem<T> = [T, number?] *)

FnTuple(arg, t) ==
    CASE arg.ttl = "none" -> <<arg.val>>
      [] arg.ttl = "never" -> <<arg.val, Inf>>
      [] OTHER -> <<arg.val, Num(ExpiryPoint)>>

StringifyTupleDropsExpiry(item) == <<ToJSON(item[1])>>

StringifyTuple(item) == [i \in 1..Len(item) |-> ToJSON(item[i])]

ParseTuple(text) == text

\* getItem: <<>> for null, <<item>> otherwise
GetItemTuple(s, key) ==
    LET item == StorageGetItem(s, key)
    IN IF item = <<>> THEN <<>> ELSE <<ParseTuple(item[1])>>

TupleExpiry(item) == IF Len(item) >= 2 THEN item[2] ELSE Undef

ExpiredTupleReversed(item, t) ==
    LET e == Coalesce(TupleExpiry(item), Inf)
    IN IsNum(e) /\ t < e[2]

\* (item[1] ?? Infinity) < now
ExpiredTuple(item, t) == LessThan(Coalesce(TupleExpiry(item), Inf), t)

\* get: what it leaves in the store, what it returns, how often it called fn
GetTuple(s, key, arg, t) ==
    LET got == GetItemTuple(s, key)
    IN IF got = <<>> \/ ExpiredTuple(got[1], t)
       THEN LET item == FnTuple(arg, t)
            IN [storage |-> StorageSetItem(s, key, StringifyTuple(item)),
                ret |-> item[1], calls |-> 1]
       ELSE [storage |-> s, ret |-> got[1][1], calls |-> 0]

----------------------------------------------------------------------------
(* Revision "object": CacheItem<T> = {value, expiresAt, hit} *)

NewItemObject == [value |-> Undef, expiresAt |-> Inf, hit |-> False]

\* the callback receives the item and may assign item.expiresAt
FnObject(item, arg, t) ==
    CASE arg.ttl = "none" -> item
      [] arg.ttl = "never" -> [item EXCEPT !.expiresAt = Inf]
      [] OTHER -> [item EXCEPT !.expiresAt = Num(ExpiryPoint)]

StringifyObject(item) ==
    [value |-> ToJSON(item.value), expiresAt |-> ToJSON(item.expiresAt),
     hit |-> item.hit]

\* JSON.parse with the reviver that copies every key of the text that the
\* fresh cacheItem has
GetItemObject(s, key) ==
    LET item == StorageGetItem(s, key)
    IN IF item = <<>>
       THEN NewItemObject
       ELSE [value |-> item[1].value, expiresAt |-> item[1].expiresAt,
             hit |-> item[1].hit]

MissObjectIgnoresExpiry(item, t) == item.hit # True

\* !item.hit || (isFinite(item.expiresAt) && item.expiresAt < now)
MissObject(item, t) ==
    item.hit # True \/ (IsFinite(item.expiresAt) /\ LessThan(item.expiresAt, t))

GetObject(s, key, arg, t) ==
    LET item == GetItemObject(s, key)
    IN IF MissObject(item, t)
       THEN LET called == FnObject([item EXCEPT !.hit = True], arg, t)
                fresh == [called EXCEPT !.value = arg.val]
            IN [storage |-> StorageSetItem(s, key, StringifyObject(fresh)),
                ret |-> fresh.value, calls |-> 1]
       ELSE [storage |-> s, ret |-> item.value, calls |-> 0]

----------------------------------------------------------------------------
(* Revision "class": class CacheItem with the getter hit *)

NewCacheItem == [value |-> Null, expiry |-> Inf]

\* set expiresAfter(value): expiry = getTime() + value
ExpiresAfter(item, value, t) == [item EXCEPT !.expiry = Num(t + value)]

\* the callback may assign item.expiresAfter, here the distance from now to
\* the point in time; item.expiresAt = null leaves the expiry as it is
FnClass(item, arg, t) ==
    CASE arg.ttl \in {"none", "never"} -> item
      [] OTHER -> ExpiresAfter(item, ExpiryPoint - t, t)

\* JSON.stringify writes the own fields value and expiry; the getter hit
\* lives on the prototype and is not written
StringifyClass(item) ==
    [value |-> ToJSON(item.value), expiry |-> ToJSON(item.expiry)]

\* #getItem: JSON.parse gives a plain object (or null): it has no hit
GetItemClass(s, key) == StorageGetItem(s, key)

\* item?.hit on what #getItem returned: undefined in both cases
HitOfParsed(got) == Undef

InitItem(s, key, arg, t) ==
    LET called == FnClass(NewCacheItem, arg, t)
        item == [called EXCEPT !.value = arg.val]
    IN [storage |-> StorageSetItem(s, key, StringifyClass(item)),
        ret |-> item.value, calls |-> 1]

GetClass(s, key, arg, t) ==
    LET got == GetItemClass(s, key)
    IN IF HitOfParsed(got) # True
       THEN InitItem(s, key, arg, t)
       ELSE [storage |-> s, ret |-> got[1].value, calls |-> 0]

----------------------------------------------------------------------------
(* CachePool *)

Revisions == {"tuple", "object", "class"}

CachePoolGet(r, s, key, arg, t) ==
    CASE r = "tuple" -> GetTuple(s, key, arg, t)
      [] r = "object" -> GetObject(s, key, arg, t)
      [] OTHER -> GetClass(s, key, arg, t)

CachePoolDelete(s, key) == StorageRemoveItem(s, key)

HasChecksExpiry(s, key) ==
    LET item == StorageGetItem(s, key)
    IN /\ item # <<>>
       /\ CASE rev = "tuple" -> ~ExpiredTuple(item[1], now)
            [] rev = "object" -> ~MissObject(item[1], now)
            [] OTHER -> TRUE

\* null != this.storage.getItem(key)
CachePoolHas(s, key) == StorageGetItem(s, key) # <<>>

CachePoolClear(s) == StorageClear(s)

----------------------------------------------------------------------------
(* NamespaceCachePool *)

\* two NamespaceCachePools, constructed on one MemoryStorage
Pools == {"a", "b"}

\* "dup" is a further pool constructed with the namespace of pool "a"
Namespace(p) == IF p = "b" THEN NsB ELSE NsA


GetNamespaceKeyDropsNamespace(ns, key) == key

\* `${namespace}.${key}`
GetNamespaceKey(ns, key) == ns \o Dot \o key

\* the key a pool's get, delete and has hand to CachePool
PoolKey(p, key) == GetNamespaceKey(Namespace(p), key)

\* the indices of the keys clear() collects, then removes one by one
RECURSIVE RemoveAll(_, _)
RemoveAll(s, keys) ==
    IF keys = <<>> THEN s
    ELSE RemoveAll(StorageRemoveItem(s, Head(keys)), Tail(keys))

RECURSIVE CollectKeys(_, _, _)
CollectKeys(s, ns, i) ==
    IF ~(i < StorageLength(s)) THEN <<>>
    ELSE LET key == StorageKey(s, i)
         IN (IF key # <<>> /\ Includes(key[1], ns) THEN key ELSE <<>>)
                \o CollectKeys(s, ns, i + 1)

NamespaceClearSkipping(s, ns) ==
    LET keys == CollectKeys(s, ns, 0)
    IN RemoveAll(s, [i \in 1..((Len(keys) + 1) \div 2) |-> keys[2 * i - 1]])

NamespaceClear(s, ns) == RemoveAll(s, CollectKeys(s, ns, 0))

\* revision "class" has no clear override: CachePool.clear runs
PoolClear(r, p, s) ==
    IF r = "class"
    THEN CachePoolClear(s)
    ELSE NamespaceClear(s, Namespace(p))

----------------------------------------------------------------------------
(* The storage backends.  The three of them are held as the sequence of     *)
(* their entries: the array of MemoryStorage, the Map of MapStorage in      *)
(* insertion order, the directory of FilesystemStorage as readdirSync lists *)
(* it.  getItem and setItem agree on it (Map.set keeps the place of a key   *)
(* it holds, writeFileSync overwrites the file it finds); removeItem and    *)
(* clear are given per backend.                                             *)

Backends == {"memory", "map", "fs"}

\* what a store operation leaves and the error it threw, "none" for none
Left(s, err) == [storage |-> s, err |-> err]

\* Map.get(key) ?? null
MapGetItem(s, key) ==
    IF \E i \in 1..Len(s) : s[i].key = key
    THEN <<s[CHOOSE i \in 1..Len(s) : s[i].key = key].value>>
    ELSE <<>>

MapSetMovesToEnd(s, key, value) ==
    SelectSeq(s, LAMBDA e : e.key # key) \o <<Entry(key, value)>>

\* Map.set(key, value): a key the Map holds keeps its place
MapSetItem(s, key, value) ==
    IF \E i \in 1..Len(s) : s[i].key = key
    THEN [i \in 1..Len(s) |->
            IF s[i].key = key THEN Entry(key, value) ELSE s[i]]
    ELSE Append(s, Entry(key, value))

\* Map.size
MapLength(s) == Len(s)

\* Array.from(this.#storage.keys())[index] ?? null
MapKey(s, index) ==
    LET keys == [i \in 1..Len(s) |-> s[i].key]
    IN IF index + 1 \in 1..Len(keys) THEN <<keys[index + 1]>> ELSE <<>>

\* readdirSync(path).find(file => file === key), then readFileSync
FilesystemGetItem(s, key) ==
    LET files == [i \in 1..Len(s) |-> s[i].key]
    IN IF \E i \in 1..Len(files) : files[i] = key
       THEN <<s[CHOOSE i \in 1..Len(files) : files[i] = key].value>>
       ELSE <<>>

\* writeFileSync(join(path, key), value): creates the file or replaces what
\* it holds
FilesystemSetItem(s, key, value) ==
    IF \E i \in 1..Len(s) : s[i].key = key
    THEN [i \in 1..Len(s) |->
            IF s[i].key = key THEN Entry(key, value) ELSE s[i]]
    ELSE Append(s, Entry(key, value))

\* readdirSync(path).length
FilesystemLength(s) == Len(s)

BackendGetItem(b, s, key) ==
    CASE b = "memory" -> StorageGetItem(s, key)
      [] b = "map" -> MapGetItem(s, key)
      [] OTHER -> FilesystemGetItem(s, key)

SetItemAlwaysPushes(b, s, key, value) == Append(s, Entry(key, value))

BackendSetItem(b, s, key, value) ==
    CASE b = "memory" -> StorageSetItem(s, key, value)
      [] b = "map" -> MapSetItem(s, key, value)
      [] OTHER -> FilesystemSetItem(s, key, value)

BackendLength(b, s) ==
    CASE b = "memory" -> StorageLength(s)
      [] b = "map" -> MapLength(s)
      [] OTHER -> FilesystemLength(s)

\* Map.delete
\* Map.delete(key)
MapRemoveItem(s, key) == Left(SelectSeq(s, LAMBDA e : e.key # key), "none")

\* unlinkSync(join(path, key)) throws ENOENT when the file does not exist
FilesystemRemoveItem(s, key) ==
    IF FindIndexFor(s, key) = 0
    THEN Left(s, "ENOENT")
    ELSE Left(StorageRemoveItem(s, key), "none")

BackendRemoveItem(b, s, key) ==
    CASE b = "memory" -> Left(StorageRemoveItem(s, key), "none")
      [] b = "map" -> MapRemoveItem(s, key)
      [] OTHER -> FilesystemRemoveItem(s, key)

\* Map.clear
MapClear(s) == <<>>

\* readdirSync(path).forEach(file => this.removeItem(file)); files is the
\* listing taken before the first removal
RECURSIVE FilesystemRemoveEach(_, _)
FilesystemRemoveEach(s, files) ==
    IF files = <<>> THEN Left(s, "none")
    ELSE LET res == FilesystemRemoveItem(s, Head(files))
         IN IF res.err # "none" THEN res
            ELSE FilesystemRemoveEach(res.storage, Tail(files))

FilesystemClear(s) ==
    FilesystemRemoveEach(s, [i \in 1..Len(s) |-> s[i].key])

ClearKeepsOldest(b, s) == Left(SubSeq(s, 1, IF s = <<>> THEN 0 ELSE 1), "none")

ClearDropsOldest(b, s) == Left(SubSeq(s, 2, Len(s)), "none")

BackendClear(b, s) ==
    CASE b = "memory" -> Left(StorageClear(s), "none")
      [] b = "map" -> Left(MapClear(s), "none")
      [] OTHER -> FilesystemClear(s)

----------------------------------------------------------------------------
(* The pools of a ChainedCachePool.  The two NamespaceCachePools are        *)
(* constructed on one store (sh) or each on its own; st gives the store of  *)
(* each pool, and with one store both pools use that of pool "a".           *)

\* the pools in the order they were handed to the constructor
Registry == cachePools

StoreOfFirst(sh, p) == "a"

StoreOf(sh, p) == IF sh THEN "a" ELSE p

EmptyStores == [p \in Pools \cup {"dup"} |-> <<>>]

\* what a pool operation leaves in the stores, what it returns, how often it
\* called fn, and the error it threw
Outcome(st, ret, calls, err) ==
    [stores |-> st, ret |-> ret, calls |-> calls, err |-> err]

Thrown(st, err) == Outcome(st, Undef, 0, err)

\* NamespaceCachePool.get
PoolGet(r, sh, st, p, k, arg, t) ==
    LET sid == StoreOf(sh, p)
        res == CachePoolGet(r, st[sid], PoolKey(p, k), arg, t)
    IN Outcome([st EXCEPT ![sid] = res.storage], res.ret, res.calls, "none")

\* NamespaceCachePool.delete: CachePool.delete hands the key to removeItem
PoolDelete(b, sh, st, p, k) ==
    LET sid == StoreOf(sh, p)
        res == BackendRemoveItem(b, st[sid], PoolKey(p, k))
    IN Outcome([st EXCEPT ![sid] = res.storage], Undef, 0, res.err)

\* NamespaceCachePool.has
PoolHas(sh, st, p, k) ==
    Outcome(st, IF CachePoolHas(st[StoreOf(sh, p)], PoolKey(p, k))
                THEN True ELSE False, 0, "none")

\* NamespaceCachePool.clear; the keys it removes are keys the store listed,
\* so that removeItem finds each of them in every backend
PoolClearIn(r, sh, st, p) ==
    LET sid == StoreOf(sh, p)
    IN [st EXCEPT ![sid] = PoolClear(r, p, st[sid])]

\* a CachePool constructed on the store of pool "a": clear
BaseClear(b, sh, st) ==
    LET res == BackendClear(b, st["a"])
    IN Outcome([st EXCEPT !["a"] = res.storage], Undef, 0, res.err)

----------------------------------------------------------------------------
(* ChainedCachePool *)

\* String.prototype.split('.')
RECURSIVE Split(_)
Split(s) ==
    IF \E i \in 1..Len(s) : s[i] = "."
    THEN LET i == CHOOSE i \in 1..Len(s) :
                    s[i] = "." /\ \A j \in 1..(i - 1) : s[j] # "."
         IN <<SubSeq(s, 1, i - 1)>> \o Split(SubSeq(s, i + 1, Len(s)))
    ELSE <<s>>

\* the text a template literal gives for undefined
UndefinedText == <<"u", "n", "d", "e", "f", "i", "n", "e", "d">>

\* [n, k] = key.split('.'): the first two parts, k undefined without a dot
GetNamespaceAndKey(key) ==
    LET parts == Split(key)
    IN <<parts[1], IF Len(parts) >= 2 THEN parts[2] ELSE UndefinedText>>

FirstRegisteredPool(namespace) == <<"pool", 1>>

LastRegisteredPool(namespace) ==
    IF \E i \in 1..Len(Registry) : Namespace(Registry[i]) = namespace
    THEN <<"pool", CHOOSE i \in 1..Len(Registry) :
                /\ Namespace(Registry[i]) = namespace
                /\ \A j \in (i + 1)..Len(Registry) :
                      Namespace(Registry[j]) # namespace>>
    ELSE Undef

\* Array.find: the first pool of that namespace, undefined when there is none
GetCachePool(namespace) ==
    IF \E i \in 1..Len(Registry) : Namespace(Registry[i]) = namespace
    THEN <<"pool", CHOOSE i \in 1..Len(Registry) :
                /\ Namespace(Registry[i]) = namespace
                /\ \A j \in 1..(i - 1) : Namespace(Registry[j]) # namespace>>
    ELSE Undef

\* a call of a method on what getCachePool returned
IsPool(pool) == pool[1] = "pool"
PoolOf(pool) == Registry[pool[2]]

\* get: revision "tuple" tests null === pool before the call; the call on
\* undefined throws a TypeError in every revision
ChainedGet(r, sh, st, key, arg, t) ==
    LET nk == GetNamespaceAndKey(key)
        pool == GetCachePool(nk[1])
    IN IF r = "tuple" /\ pool = Null
       THEN Thrown(st, "Error")
       ELSE IF ~IsPool(pool)
            THEN Thrown(st, "TypeError")
            ELSE PoolGet(r, sh, st, PoolOf(pool), nk[2], arg, t)

DeleteInEveryPool(r, b, sh, st, key) ==
    LET nk == GetNamespaceAndKey(key)
        first == PoolDelete(b, sh, st, "a", nk[2])
    IN PoolDelete(b, sh, first.stores, "b", nk[2])

\* delete: revision "tuple" tests null !== pool, the others call with ?.
ChainedDelete(r, b, sh, st, key) ==
    LET nk == GetNamespaceAndKey(key)
        pool == GetCachePool(nk[1])
    IN IF r = "tuple"
       THEN IF pool # Null
            THEN IF ~IsPool(pool)
                 THEN Thrown(st, "TypeError")
                 ELSE PoolDelete(b, sh, st, PoolOf(pool), nk[2])
            ELSE Outcome(st, Undef, 0, "none")
       ELSE IF ~IsPool(pool)
            THEN Outcome(st, Undef, 0, "none")
            ELSE PoolDelete(b, sh, st, PoolOf(pool), nk[2])

HasOfFirstPool(r, sh, st, key) ==
    PoolHas(sh, st, Registry[1], GetNamespaceAndKey(key)[2])

\* has: "tuple" pool !== null && pool.has(k); "object" pool?.has(k) ?? false;
\* "class" pool.has(k)
ChainedHas(r, sh, st, key) ==
    LET nk == GetNamespaceAndKey(key)
        pool == GetCachePool(nk[1])
    IN CASE r = "tuple" ->
              IF pool # Null
              THEN IF ~IsPool(pool)
                   THEN Thrown(st, "TypeError")
                   ELSE PoolHas(sh, st, PoolOf(pool), nk[2])
              ELSE Outcome(st, False, 0, "none")
         [] r = "object" ->
              IF ~IsPool(pool)
              THEN Outcome(st, False, 0, "none")
              ELSE PoolHas(sh, st, PoolOf(pool), nk[2])
         [] OTHER ->
              IF ~IsPool(pool)
              THEN Thrown(st, "TypeError")
              ELSE PoolHas(sh, st, PoolOf(pool), nk[2])

ClearFirstPoolOnly(r, sh, st) ==
    Outcome(PoolClearIn(r, sh, st, Registry[1]), Undef, 0, "none")

\* clear: pools.forEach(pool => pool.clear())
RECURSIVE ClearFrom(_, _, _, _)
ClearFrom(r, sh, st, i) ==
    IF i > Len(Registry) THEN st
    ELSE ClearFrom(r, sh, PoolClearIn(r, sh, st, Registry[i]), i + 1)

ChainedClear(r, sh, st) == Outcome(ClearFrom(r, sh, st, 1), Undef, 0, "none")

----------------------------------------------------------------------------
(* CacheItem (revision "class") *)

\* Date.getTime() counts milliseconds; Date.getSeconds() gives the seconds
\* of the minute
MsPerSecond == 1000
SecondsPerMinute == 60

\* a Date, held as its getTime()
Date(ms) == <<"date", ms>>

\* Date.prototype.getSeconds
GetSeconds(d) == (d[2] \div MsPerSecond) % SecondsPerMinute

\* set expiresAt(value): if (null !== value) expiry = value.getSeconds()
ExpiresAt(it, value) ==
    IF value # Null
    THEN [it EXCEPT !.expiry = Num(GetSeconds(value))]
    ELSE it

ItemHitInclusive(it, t) ==
    it.expiry = Inf \/ (IsNum(it.expiry) /\ t <= it.expiry[2])

\* get hit(): (new Date()).getTime() < this.expiry
ItemHit(it, t) == it.expiry = Inf \/ (IsNum(it.expiry) /\ t < it.expiry[2])

----------------------------------------------------------------------------
(* What the caller of the chained pool and of the item observed last *)

\* clast: the latest operation on the chained pool, on one of its pools or
\* on a store: the compound key, the pool, whether the store of the addressed
\* pool held the entry when the operation began, how often the callback ran,
\* the value returned, the error thrown; for a clear the number of entries
\* it removed, whether the store held the key written outside of the pools,
\* and, when it follows the same clear, the number of entries that one removed
CNoOp == [op |-> "none", key |-> <<>>, pool |-> "", found |-> FALSE,
          calls |-> 0, ret |-> Undef, err |-> "none", removed |-> 0,
          twice |-> <<>>, text |-> <<>>]

\* ilast: the latest operation on the item: its name, the time, the value
\* hit gave, and the latest assignment to expiresAfter with its time
\* (the number and the time), or the latest assignment to expiresAt (the
\* point in time and the time), whichever came last
INoOp == [op |-> "none", at |-> StartNow, hit |-> Undef, set |-> <<>>,
          setAt |-> <<>>, never |-> FALSE]

\* the chained pool and the item while they are not in use
IdleChain ==
    /\ shared = FALSE
    /\ backend = "memory"
    /\ cachePools = <<"a", "b">>
    /\ stores = EmptyStores
    /\ clast = CNoOp

IdleItem ==
    /\ citem = NewCacheItem
    /\ ilast = INoOp

\* no asynchronous callback is in flight
IdleAsync == pending = <<>>

----------------------------------------------------------------------------
(* The state machine *)

\* the expiry a stored envelope carries: undefined when it has none
StoredExpiry(r, text) ==
    CASE r = "tuple" -> TupleExpiry(text)
      [] r = "object" -> text.expiresAt
      [] OTHER -> text.expiry

\* the payload a stored envelope carries
StoredValue(r, text) == IF r = "tuple" THEN text[1] ELSE text.value

\* what an operation finds at its key when it starts: <<>> when the store
\* holds no entry there, else <<e>>, e the expiry of the entry
Seen(r, s, key) ==
    LET item == StorageGetItem(s, key)
    IN IF item = <<>> THEN <<>> ELSE <<StoredExpiry(r, item[1])>>

\* last: the latest pool operation and what its caller observed: the pool,
\* the storage key, what was found there, the payload and the expiry choice of
\* the callback when it ran, how often it ran, the value returned, the time
\* of a get
NoOp == [op |-> "none", pool |-> "a", key |-> <<>>, seen |-> <<>>,
         val |-> Undef, ttl |-> "", calls |-> 0, ret |-> Undef,
         at |-> StartNow, err |-> "none", fault |-> "none"]

Init ==
    /\ rev \in Revisions
    /\ storage = <<>>
    /\ now = StartNow
    /\ last = NoOp
    /\ IdleChain
    /\ IdleItem
    /\ IdleAsync

Get(p, k, arg) ==
    LET key == PoolKey(p, k)
        res == CachePoolGet(rev, storage, key, arg, now)
    IN /\ storage' = res.storage
       /\ last' = [op |-> "get", pool |-> p, key |-> key,
                   seen |-> Seen(rev, storage, key),
                   val |-> IF res.calls = 1 THEN arg.val ELSE Undef,
                   ttl |-> IF res.calls = 1 THEN arg.ttl ELSE "",
                   calls |-> res.calls, ret |-> res.ret, at |-> now,
                   err |-> "none", fault |-> "none"]
       /\ UNCHANGED <<rev, now, chainVars, itemVars, pending>>

Delete(p, k) ==
    LET key == PoolKey(p, k)
    IN /\ storage' = CachePoolDelete(storage, key)
       /\ last' = [NoOp EXCEPT !.op = "delete", !.pool = p, !.key = key,
                                !.seen = Seen(rev, storage, key)]
       /\ UNCHANGED <<rev, now, chainVars, itemVars, pending>>

Has(p, k) ==
    LET key == PoolKey(p, k)
    IN /\ last' = [NoOp EXCEPT !.op = "has", !.pool = p, !.key = key,
                                !.seen = Seen(rev, storage, key),
                                !.ret = IF CachePoolHas(storage, key)
                                        THEN True ELSE False]
       /\ UNCHANGED <<rev, storage, now, chainVars, itemVars, pending>>

Clear(p) ==
    /\ storage' = PoolClear(rev, p, storage)
    /\ last' = [NoOp EXCEPT !.op = "clear", !.pool = p]
    /\ UNCHANGED <<rev, now, chainVars, itemVars, pending>>

Tick ==
    /\ now < MaxNow
    /\ now' = now + 1
    /\ UNCHANGED <<rev, storage, last, chainVars, itemVars, pending>>

Next ==
    \/ \E p \in Pools : \E k \in LocalKeys : \E arg \in FnArgs : Get(p, k, arg)
    \/ \E p \in Pools : \E k \in LocalKeys : Delete(p, k)
    \/ \E p \in Pools : \E k \in LocalKeys : Has(p, k)
    \/ \E p \in Pools : Clear(p)
    \/ Tick

Spec == Init /\ [][Next]_vars

----------------------------------------------------------------------------
(* The state machine of the chained pool: a ChainedCachePool over the two   *)
(* NamespaceCachePools, a CachePool on the store of pool "a", and writes    *)
(* made to that store outside of the pools.  The clock stands still.        *)

\* a namespace no pool is registered for
NsC == <<"c">>

\* the compound keys handed to the chained pool
ChainKeys == {GetNamespaceKey(ns, k) : ns \in {NsA, NsB, NsC}, k \in LocalKeys}

\* a key written to the store outside of the pools, and its text
DirectKey == <<"x">>
DirectText == <<"text">>

\* the callbacks handed to the chained pool
ChainArgs == [val : {Str(1)}, ttl : {"none", "point"}]

\* whether the store of the pool a compound key addresses holds the entry
Found(sh, st, key) ==
    LET nk == GetNamespaceAndKey(key)
        pool == GetCachePool(nk[1])
    IN /\ IsPool(pool)
       /\ CachePoolHas(st[StoreOf(sh, PoolOf(pool))],
                       PoolKey(PoolOf(pool), nk[2]))

\* the number of entries the stores hold
RECURSIVE Entries(_, _)
Entries(st, ps) ==
    IF ps = {} THEN 0
    ELSE LET p == CHOOSE p \in ps : TRUE
         IN Len(st[p]) + Entries(st, ps \ {p})

\* the ghost of a clear: <<n>> when it follows the same clear, which removed
\* n entries
Twice(op, p, removed) ==
    IF clast.op = op /\ clast.pool = p THEN <<removed>> ELSE <<>>

InitPools ==
    /\ rev \in Revisions
    /\ storage = <<>>
    /\ now = StartNow
    /\ last = NoOp
    /\ shared \in BOOLEAN
    /\ backend \in Backends
    /\ cachePools = <<"a", "b">>
    /\ stores = EmptyStores
    /\ clast = CNoOp
    /\ IdleItem
    /\ IdleAsync

Observe(op, key, p, res) ==
    [CNoOp EXCEPT !.op = op, !.key = key, !.pool = p,
                  !.found = Found(shared, stores, key),
                  !.calls = res.calls, !.ret = res.ret, !.err = res.err]

ChainGet(key, arg) ==
    LET res == ChainedGet(rev, shared, stores, key, arg, now)
    IN /\ stores' = res.stores
       /\ clast' = Observe("get", key, "", res)
       /\ UNCHANGED <<rev, storage, now, last, shared, backend, cachePools,
                      itemVars, pending>>

ChainDelete(key) ==
    LET res == ChainedDelete(rev, backend, shared, stores, key)
    IN /\ stores' = res.stores
       /\ clast' = Observe("delete", key, "", res)
       /\ UNCHANGED <<rev, storage, now, last, shared, backend, cachePools,
                      itemVars, pending>>

ChainHas(key) ==
    LET res == ChainedHas(rev, shared, stores, key)
    IN /\ stores' = res.stores
       /\ clast' = Observe("has", key, "", res)
       /\ UNCHANGED <<rev, storage, now, last, shared, backend, cachePools,
                      itemVars, pending>>

\* the number of entries a clear that leaves st removed
Removed(st) == Entries(stores, Pools) - Entries(st, Pools)

ChainClear ==
    LET res == ChainedClear(rev, shared, stores)
    IN /\ stores' = res.stores
       /\ clast' = [CNoOp EXCEPT !.op = "clear", !.err = res.err,
                        !.removed = Removed(res.stores),
                        !.twice = Twice("clear", "", clast.removed)]
       /\ UNCHANGED <<rev, storage, now, last, shared, backend, cachePools,
                      itemVars, pending>>

\* clear() on one NamespaceCachePool
NamespaceClearOf(p) ==
    LET st == PoolClearIn(rev, shared, stores, p)
    IN /\ stores' = st
       /\ clast' = [CNoOp EXCEPT !.op = "poolClear", !.pool = p,
                        !.removed = Removed(st),
                        !.twice = Twice("poolClear", p, clast.removed)]
       /\ UNCHANGED <<rev, storage, now, last, shared, backend, cachePools,
                      itemVars, pending>>

\* clear() on the CachePool
CachePoolClearAll ==
    LET res == BaseClear(backend, shared, stores)
    IN /\ stores' = res.stores
       /\ clast' = [CNoOp EXCEPT !.op = "baseClear", !.err = res.err,
                        !.removed = Removed(res.stores),
                        !.found = CachePoolHas(stores["a"], DirectKey),
                        !.twice = Twice("baseClear", "", clast.removed)]
       /\ UNCHANGED <<rev, storage, now, last, shared, backend, cachePools,
                      itemVars, pending>>

\* storage.setItem outside of the pools
DirectSetItem ==
    /\ stores' = [stores EXCEPT
                    !["a"] = StorageSetItem(stores["a"], DirectKey, DirectText)]
    /\ clast' = [CNoOp EXCEPT !.op = "setItem", !.key = DirectKey]
    /\ UNCHANGED <<rev, storage, now, last, shared, backend, cachePools,
                   itemVars, pending>>

NextPools ==
    \/ \E key \in ChainKeys : \E arg \in ChainArgs : ChainGet(key, arg)
    \/ \E key \in ChainKeys : ChainDelete(key)
    \/ \E key \in ChainKeys : ChainHas(key)
    \/ ChainClear
    \/ \E p \in Pools : NamespaceClearOf(p)
    \/ CachePoolClearAll
    \/ DirectSetItem

SpecPools == InitPools /\ [][NextPools]_vars

----------------------------------------------------------------------------
(* The state machine of one CacheItem *)

\* the numbers assigned to expiresAfter
AfterChoices == {-1, 0, 1, 2}

InitOfItem ==
    /\ rev = "class"
    /\ storage = <<>>
    /\ now = StartNow
    /\ last = NoOp
    /\ IdleChain
    /\ IdleItem
    /\ IdleAsync

SetExpiresAfter(value) ==
    /\ citem' = ExpiresAfter(citem, value, now)
    /\ ilast' = [op |-> "expiresAfter", at |-> now, hit |-> Undef,
                 set |-> <<value, now>>, setAt |-> <<>>, never |-> FALSE]
    /\ UNCHANGED <<rev, storage, now, last, chainVars, pending>>

\* the points in time assigned to expiresAt, as their distance from now
DateOffsets == {-1, 0, 1}

\* item.expiresAt = new Date(now + offset)
SetExpiresAt(offset) ==
    /\ citem' = ExpiresAt(citem, Date(now + offset))
    /\ ilast' = [op |-> "expiresAt", at |-> now, hit |-> Undef,
                 set |-> <<>>, setAt |-> <<now + offset, now>>,
                 never |-> FALSE]
    /\ UNCHANGED <<rev, storage, now, last, chainVars, pending>>

\* item.expiresAt = null
SetExpiresAtNull ==
    /\ citem' = ExpiresAt(citem, Null)
    /\ ilast' = [op |-> "expiresAt", at |-> now, hit |-> Undef,
                 set |-> <<>>, setAt |-> <<>>, never |-> TRUE]
    /\ UNCHANGED <<rev, storage, now, last, chainVars, pending>>

\* item.value = value
SetValue(value) ==
    /\ citem' = [citem EXCEPT !.value = value]
    /\ ilast' = [ilast EXCEPT !.op = "value", !.at = now, !.hit = Undef]
    /\ UNCHANGED <<rev, storage, now, last, chainVars, pending>>

ReadHit ==
    /\ ilast' = [ilast EXCEPT !.op = "hit", !.at = now,
                    !.hit = IF ItemHit(citem, now) THEN True ELSE False]
    /\ UNCHANGED <<rev, storage, now, last, chainVars, citem, pending>>

NextItem ==
    \/ \E value \in AfterChoices : SetExpiresAfter(value)
    \/ \E offset \in DateOffsets : SetExpiresAt(offset)
    \/ SetExpiresAtNull
    \/ \E value \in Payloads : SetValue(value)
    \/ ReadHit
    \/ Tick

SpecItem == InitOfItem /\ [][NextItem]_vars

----------------------------------------------------------------------------
(* Vocabulary of the properties *)

AllKeys == {PoolKey(p, k) : p \in Pools, k \in LocalKeys}

\* this step is the pool operation op (the clock stands still in it), and
\* last' describes it
Did(op) == now' = now /\ last'.op = op

\* this step is a get on the key of the get before it, with no other pool
\* operation in between (the clock may have advanced)
GetAfterGet == Did("get") /\ last.op = "get" /\ last'.key = last.key

\* the get of this step was a miss served by the callback: it ran once, its
\* payload was returned, and the store now holds that payload at the key
FreshMiss ==
    /\ last'.calls = 1
    /\ last'.ret = last'.val
    /\ StorageGetItem(storage', last'.key) # <<>>
    /\ StoredValue(rev, StorageGetItem(storage', last'.key)[1]) = last'.val

\* every key but the one of this step holds what it held
OthersUnchanged ==
    \A key \in AllKeys \ {last'.key} :
        StorageGetItem(storage', key) = StorageGetItem(storage, key)

----------------------------------------------------------------------------
(* C1 *)

\* C1: a get on a key that holds no entry runs the callback exactly once and
\* returns its result; a get on the same key that follows immediately, the
\* first having set no expiry, returns that result and does not run its
\* callback.
C1_MissThenHit ==
    [][ /\ (Did("get") /\ last'.seen = <<>>)
            => (last'.calls = 1 /\ last'.ret = last'.val)
        /\ (GetAfterGet /\ last.calls = 1 /\ last.ttl \in {"none", "never"}
                /\ last'.at = last.at)
            => (last'.calls = 0 /\ last'.ret = last.ret) ]_vars

----------------------------------------------------------------------------
(* C2 *)

\* this step is a get that found an entry carrying a number as expiry
FoundExpiry ==
    /\ Did("get")
    /\ last'.seen # <<>>
    /\ IsNum(last'.seen[1])

\* C2 as stated: a get that finds an entry with expiry E and now >= E is a
\* miss: it runs the callback, overwrites the entry and returns the
\* callback's value.
C2_NoStaleReadFromExpiry ==
    [][ (FoundExpiry /\ now >= last'.seen[1][2]) => FreshMiss ]_vars

\* C2 amended: a get that finds an entry with expiry E and now > E is a
\* miss: it runs the callback, overwrites the entry and returns the
\* callback's value (at now = E the entry is still served).
C2_NoStaleReadPastExpiry ==
    [][ (FoundExpiry /\ now > last'.seen[1][2]) => FreshMiss ]_vars

\* a get has found an entry whose expiry lay in the past, has run the
\* callback and has returned its payload
C2_Witness ==
    /\ last.op = "get"
    /\ last.seen # <<>>
    /\ IsNum(last.seen[1])
    /\ last.seen[1][2] < last.at
    /\ last.calls = 1
    /\ last.ret = last.val

----------------------------------------------------------------------------
(* C3 *)

----------------------------------------------------------------------------
(* C4 *)

\* C4: after a get whose callback ran and set no expiry, every later get on
\* the key, at any later time and with no pool operation in between, is a
\* hit that returns the stored value.
C4_NoExpiryNeverExpires ==
    [][ (GetAfterGet /\ last.calls = 1 /\ last.ttl = "none")
        => (last'.calls = 0 /\ last'.ret = last.ret) ]_vars

----------------------------------------------------------------------------
(* C5 *)

\* the entry a get found is not expired: it carries no number as expiry, or
\* the clock is before that number
FoundUnexpired ==
    /\ Did("get")
    /\ last'.seen # <<>>
    /\ IsNum(last'.seen[1]) => now < last'.seen[1][2]

\* C5: in the revisions "tuple" and "object": a get that finds an entry
\* that is not expired does not run the callback and leaves the store as
\* it is.
C5_HitHasNoEffect ==
    [][ (rev # "class" /\ FoundUnexpired)
        => (last'.calls = 0 /\ storage' = storage) ]_vars

----------------------------------------------------------------------------
(* C6 *)

\* the expiry an envelope means: null and a missing expiry mean never
Meaning(e) == Coalesce(e, Inf)

\* the expiry the callback chose
Chosen(ttl) == IF ttl = "point" THEN Num(ExpiryPoint) ELSE Inf

----------------------------------------------------------------------------
(* C7 *)

\* C7: after a delete the store holds no entry at the key, whatever it held
\* before; a has on that key that follows returns false, and a get that
\* follows is a miss served by the callback.
C7_DeleteThenRead ==
    [][ /\ Did("delete") => ~CachePoolHas(storage', last'.key)
        /\ (Did("has") /\ last.op = "delete" /\ last'.key = last.key)
            => last'.ret = False
        /\ (Did("get") /\ last.op = "delete" /\ last'.key = last.key)
            => FreshMiss ]_vars

\* a delete has removed an entry that was not expired
C7_Witness ==
    /\ last.op = "delete"
    /\ last.seen # <<>>
    /\ IsNum(last.seen[1])
    /\ now < last.seen[1][2]
    /\ Len(storage) = 1

----------------------------------------------------------------------------
(* C8 *)

\* C8: has returns true exactly when the store holds an entry at the key,
\* whatever its expiry, and leaves the store as it is.
C8_HasIsPresence ==
    [][ Did("has")
        => /\ last'.ret = True <=> (\E i \in 1..Len(storage) :
                                        storage[i].key = last'.key)
           /\ last'.ret \in {True, False}
           /\ storage' = storage ]_vars

\* has has returned true for an entry whose expiry has passed
C8_Witness ==
    /\ last.op = "has"
    /\ last.ret = True
    /\ last.seen # <<>>
    /\ IsNum(last.seen[1])
    /\ last.seen[1][2] < now

----------------------------------------------------------------------------
(* C9 *)

\* C9: a get or a delete through one pool leaves what the store holds at
\* every key of the other pool as it was, so that has and get through the
\* other pool observe what they observed before.
C9_NamespaceIsolation ==
    [][ (Did("get") \/ Did("delete"))
        => \A p \in Pools \ {last'.pool} : \A k \in LocalKeys :
              StorageGetItem(storage', PoolKey(p, k))
                = StorageGetItem(storage, PoolKey(p, k)) ]_vars

\* pool "a" holds an entry at the local key k and has through pool "b" on
\* the local key k has returned false
C9_Witness ==
    /\ last.op = "has"
    /\ last.pool = "b"
    /\ last.key = PoolKey("b", <<"k">>)
    /\ last.ret = False
    /\ CachePoolHas(storage, PoolKey("a", <<"k">>))

----------------------------------------------------------------------------
(* C10 *)

\* the keys of the entries stored through pool p
KeysOfPool(p) == {PoolKey(p, k) : k \in LocalKeys}

\* C10: clear through one pool removes no entry stored through the other
\* pool.
C10_ClearIsScoped ==
    [][ Did("clear")
        => \A key \in AllKeys \ KeysOfPool(last'.pool) :
              StorageGetItem(storage', key) = StorageGetItem(storage, key) ]_vars

----------------------------------------------------------------------------
(* Vocabulary of the properties of the chained pool *)

\* the store a pool was constructed on
OwnStore(p) == IF shared THEN "a" ELSE p

\* the compound keys of the registered namespaces
RegisteredKeys == {PoolKey(p, k) : p \in Pools, k \in LocalKeys}

\* this step is the operation op on the chained pool, on a compound key of
\* a namespace that is not registered
OnUnknown(op) == clast'.op = op /\ clast'.key \notin RegisteredKeys

\* what has gives for the local key k of pool p in the stores st
HasIn(st, p, k) == \E i \in 1..Len(st[OwnStore(p)]) :
                        st[OwnStore(p)][i].key = PoolKey(p, k)

\* the entries of a store but the one at key
Without(s, key) == SelectSeq(s, LAMBDA e : e.key # key)

----------------------------------------------------------------------------
(* C11 *)

\* C11: a get through the chained pool on the compound key of a registered
\* namespace throws nothing and leaves the entry in the store of the pool of
\* that namespace, at that pool's key; every other store stays as it was, and
\* has on the keys of every other namespace gives what it gave before.
C11_ChainedRouting ==
    [][ \A p \in Pools : \A k \in LocalKeys :
          (clast'.op = "get" /\ clast'.key = PoolKey(p, k))
          => /\ clast'.err = "none"
             /\ HasIn(stores', p, k)
             /\ Without(stores'[OwnStore(p)], PoolKey(p, k))
                  = Without(stores[OwnStore(p)], PoolKey(p, k))
             /\ \A sid \in Pools \ {OwnStore(p)} : stores'[sid] = stores[sid]
             /\ \A q \in Pools \ {p} : \A x \in LocalKeys :
                  HasIn(stores', q, x) = HasIn(stores, q, x) ]_vars

\* with a store for each pool: a get has stored its entry through pool "a",
\* and the store of pool "b" holds nothing
C11_Witness ==
    /\ ~shared
    /\ clast.op = "get"
    /\ clast.key = PoolKey("a", <<"k">>)
    /\ clast.calls = 1
    /\ HasIn(stores, "a", <<"k">>)
    /\ ~HasIn(stores, "b", <<"k">>)
    /\ stores["b"] = <<>>

----------------------------------------------------------------------------
(* C12 *)

\* C12: a get through the chained pool on a compound key whose namespace is
\* not registered throws an error, does not run the callback and leaves
\* every store as it was.
C12_UnknownNamespaceGet ==
    [][ OnUnknown("get")
        => /\ clast'.err # "none"
           /\ clast'.calls = 0
           /\ stores' = stores ]_vars

\* a get on an unknown namespace has thrown while the stores held entries
C12_Witness ==
    /\ clast.op = "get"
    /\ clast.key = GetNamespaceKey(NsC, <<"k">>)
    /\ clast.err # "none"
    /\ HasIn(stores, "a", <<"k">>)
    /\ HasIn(stores, "b", <<"k">>)

----------------------------------------------------------------------------
(* C13 *)

\* C13: a has through the chained pool on a compound key whose namespace is
\* not registered returns false, throws nothing and leaves every store as it
\* was.
C13_UnknownNamespaceHas ==
    [][ OnUnknown("has")
        => /\ clast'.err = "none"
           /\ clast'.ret = False
           /\ stores' = stores ]_vars

----------------------------------------------------------------------------
(* C14 *)

\* C14: a delete through the chained pool on a compound key whose namespace
\* is not registered throws nothing and leaves every store as it was.
C14_UnknownNamespaceDelete ==
    [][ OnUnknown("delete")
        => /\ clast'.err = "none"
           /\ stores' = stores ]_vars

----------------------------------------------------------------------------
(* C15 *)

\* C15: when both pools hold the local key k, a delete through the chained
\* pool on the compound key of one of them throws nothing, leaves has false
\* for that key and true for the key of the other pool, and leaves every
\* other entry of every store as it was.
C15_ChainedDeleteIsScoped ==
    [][ \A p \in Pools : \A k \in LocalKeys :
          (/\ clast'.op = "delete"
           /\ clast'.key = PoolKey(p, k)
           /\ \A q \in Pools : HasIn(stores, q, k))
          => /\ clast'.err = "none"
             /\ ~HasIn(stores', p, k)
             /\ \A q \in Pools \ {p} : HasIn(stores', q, k)
             /\ stores'[OwnStore(p)]
                  = Without(stores[OwnStore(p)], PoolKey(p, k))
             /\ \A sid \in Pools \ {OwnStore(p)} : stores'[sid] = stores[sid]
       ]_vars

\* on one store that also holds a key written outside of the pools: a delete
\* has removed the entry of pool "a", and the entry of pool "b" is still there
C15_Witness ==
    /\ shared
    /\ clast.op = "delete"
    /\ clast.key = PoolKey("a", <<"k">>)
    /\ clast.found
    /\ ~HasIn(stores, "a", <<"k">>)
    /\ HasIn(stores, "b", <<"k">>)
    /\ Len(stores["a"]) = 2

----------------------------------------------------------------------------
(* C16 *)

\* the three clears: of the chained pool, of one NamespaceCachePool, of the
\* CachePool
Clears == {"clear", "poolClear", "baseClear"}

\* C16: a clear that follows the same clear on the same pool, with no other
\* operation in between, throws nothing and leaves every store as the first
\* clear left it.
C16_ClearIsIdempotent ==
    [][ (/\ clast'.op \in Clears
         /\ clast.op = clast'.op
         /\ clast.pool = clast'.pool)
        => /\ clast'.err = "none"
           /\ stores' = stores ]_vars

\* a clear has followed the same clear, which had removed entries and had
\* left others in the stores
C16_Witness ==
    /\ clast.op \in Clears
    /\ clast.twice # <<>>
    /\ clast.twice[1] >= 1
    /\ clast.err = "none"
    /\ Entries(stores, Pools) >= 1

----------------------------------------------------------------------------
(* C17 *)

\* the keys the store of pool "a" may hold
StoreKeys == RegisteredKeys \cup {DirectKey}

\* C17: after clear() of the CachePool its store has length 0 and holds no
\* key, the key written outside of the pools included.
C17_CachePoolClearEmptiesStore ==
    [][ clast'.op = "baseClear"
        => /\ clast'.err = "none"
           /\ StorageLength(stores'["a"]) = 0
           /\ \A key \in StoreKeys : ~CachePoolHas(stores'["a"], key) ]_vars

\* clear() of the CachePool has removed the key written outside of the pools
\* and at least one more entry
C17_Witness ==
    /\ clast.op = "baseClear"
    /\ clast.found
    /\ clast.removed >= 2
    /\ stores["a"] = <<>>

----------------------------------------------------------------------------
(* C18 *)

\* C18: after clear() of the chained pool, has is false for every local key
\* of every registered namespace, on one store and on a store for each pool.
C18_ChainedClearClearsAll ==
    [][ clast'.op = "clear"
        => /\ clast'.err = "none"
           /\ \A p \in Pools : \A k \in LocalKeys : ~HasIn(stores', p, k) ]_vars

\* with a store for each pool: clear() of the chained pool has removed the
\* entries of both pools
C18_Witness ==
    /\ ~shared
    /\ clast.op = "clear"
    /\ clast.removed >= 2
    /\ clast.twice = <<>>

----------------------------------------------------------------------------
(* C19 *)

\* C19: a delete on a key that holds no entry throws nothing and leaves the
\* store as it was, for each of the storage backends.
C19_DeleteAbsentIsNoOp ==
    [][ \A p \in Pools : \A k \in LocalKeys :
          (/\ clast'.op = "delete"
           /\ clast'.key = PoolKey(p, k)
           /\ ~HasIn(stores, p, k))
          => /\ clast'.err = "none"
             /\ stores' = stores ]_vars

----------------------------------------------------------------------------
(* C20 *)

\* C20: once expiresAfter was assigned a number that is not positive, every
\* read of hit that follows, at the same instant or later, gives false.
C20_NonPositiveExpiresAfter ==
    (/\ ilast.op = "hit"
     /\ ilast.set # <<>>
     /\ ilast.set[1] <= 0)
    => ilast.hit = False

\* hit has given false at the very instant expiresAfter was assigned 0
C20_Witness ==
    /\ ilast.op = "hit"
    /\ ilast.set = <<0, ilast.at>>
    /\ ilast.hit = False

----------------------------------------------------------------------------
(* C21 *)

\* C21: once expiresAfter was assigned s > 0 at the time t0, a read of hit
\* at the time t gives true exactly when t lies before t0 plus s seconds.
C21_ExpiresAfterCountsSeconds ==
    (/\ ilast.op = "hit"
     /\ ilast.set # <<>>
     /\ ilast.set[1] > 0)
    => (ilast.hit = True
            <=> ilast.at < ilast.set[2] + ilast.set[1] * MsPerSecond)

----------------------------------------------------------------------------
(* C22 *)

\* C22: once expiresAt was assigned the point in time T, a read of hit at the
\* time t gives false exactly when t >= T.
C22_ExpiresAtPointInTime ==
    (/\ ilast.op = "hit"
     /\ ilast.setAt # <<>>)
    => (ilast.hit = False <=> ilast.at >= ilast.setAt[1])

----------------------------------------------------------------------------
(* The state machine of the pools with the clock in seconds: now is the     *)
(* wall-clock time as a Unix timestamp, the unit the docs give an expiry    *)
(* in ("['foo-bar', 1669111468] // ... until Tue Nov 22 2022 10:04:28"),    *)
(* and a callback that sets an expiry returns the timestamp ExpiryPoint.    *)

\* (new Date()).getTime() at the wall-clock second w
GetTime(w) == w * MsPerSecond

InitUnix ==
    /\ rev = "tuple"
    /\ storage = <<>>
    /\ now = StartNow
    /\ last = NoOp
    /\ IdleChain
    /\ IdleItem
    /\ IdleAsync

GetAtWallClock(p, k, arg) ==
    LET key == PoolKey(p, k)
        res == CachePoolGet(rev, storage, key, arg, GetTime(now))
    IN /\ storage' = res.storage
       /\ last' = [op |-> "get", pool |-> p, key |-> key,
                   seen |-> Seen(rev, storage, key),
                   val |-> IF res.calls = 1 THEN arg.val ELSE Undef,
                   ttl |-> IF res.calls = 1 THEN arg.ttl ELSE "",
                   calls |-> res.calls, ret |-> res.ret, at |-> now,
                   err |-> "none", fault |-> "none"]
       /\ UNCHANGED <<rev, now, chainVars, itemVars, pending>>

NextUnix ==
    \/ \E p \in Pools : \E k \in LocalKeys : \E arg \in FnArgs :
            GetAtWallClock(p, k, arg)
    \/ \E p \in Pools : \E k \in LocalKeys : Delete(p, k)
    \/ \E p \in Pools : \E k \in LocalKeys : Has(p, k)
    \/ \E p \in Pools : Clear(p)
    \/ Tick

SpecUnix == InitUnix /\ [][NextUnix]_vars

----------------------------------------------------------------------------
(* C23 *)

\* C23: with the clock and the expiry both Unix timestamps: a get that finds
\* an entry with the expiry E is a hit that leaves the store alone when the
\* wall-clock time is before E, and a miss served by the callback when it is
\* after E.
C23_ExpiryInUnitOfClock ==
    [][ FoundExpiry
        => /\ (now < last'.seen[1][2])
                => (last'.calls = 0 /\ storage' = storage)
           /\ (now > last'.seen[1][2]) => FreshMiss ]_vars

----------------------------------------------------------------------------
(* The state machine of one store: setItem, removeItem and clear on the     *)
(* store of pool "a", for each backend                                      *)

\* the keys and the texts handed to the store
StoreKeySet == {<<"k">>, <<"x">>, <<"k", "x">>}
StoreTexts == {<<"text">>, <<"more">>}

InitStore ==
    /\ rev = "tuple"
    /\ storage = <<>>
    /\ now = StartNow
    /\ last = NoOp
    /\ shared = FALSE
    /\ backend \in Backends
    /\ cachePools = <<"a", "b">>
    /\ stores = EmptyStores
    /\ clast = CNoOp
    /\ IdleItem
    /\ IdleAsync

SetItem(key, value) ==
    /\ stores' = [stores EXCEPT
                    !["a"] = BackendSetItem(backend, stores["a"], key, value)]
    /\ clast' = [CNoOp EXCEPT !.op = "setItem", !.key = key, !.text = value,
                    !.found = BackendGetItem(backend, stores["a"], key) # <<>>]
    /\ UNCHANGED <<rev, storage, now, last, shared, backend, cachePools,
                   itemVars, pending>>

RemoveItem(key) ==
    LET res == BackendRemoveItem(backend, stores["a"], key)
    IN /\ stores' = [stores EXCEPT !["a"] = res.storage]
       /\ clast' = [CNoOp EXCEPT !.op = "removeItem", !.key = key,
                     !.err = res.err,
                     !.found = BackendGetItem(backend, stores["a"], key) # <<>>]
       /\ UNCHANGED <<rev, storage, now, last, shared, backend, cachePools,
                      itemVars, pending>>

ClearStore ==
    LET res == BackendClear(backend, stores["a"])
    IN /\ stores' = [stores EXCEPT !["a"] = res.storage]
       /\ clast' = [CNoOp EXCEPT !.op = "clearStore", !.err = res.err,
                     !.removed = Len(stores["a"]) - Len(res.storage)]
       /\ UNCHANGED <<rev, storage, now, last, shared, backend, cachePools,
                      itemVars, pending>>

NextStore ==
    \/ \E key \in StoreKeySet : \E value \in StoreTexts : SetItem(key, value)
    \/ \E key \in StoreKeySet : RemoveItem(key)
    \/ ClearStore

SpecStore == InitStore /\ [][NextStore]_vars

----------------------------------------------------------------------------
(* C24 *)

\* what getItem and length of the store give before and after this step
GetItemBefore(key) == BackendGetItem(backend, stores["a"], key)
GetItemAfter(key) == BackendGetItem(backend, stores'["a"], key)
LengthBefore == BackendLength(backend, stores["a"])
LengthAfter == BackendLength(backend, stores'["a"])

\* C24: setItem leaves its text at its key, removeItem leaves null there,
\* clear leaves null at every key; each of them leaves getItem of every other
\* key as it was; and length is the number of keys getItem finds: setItem
\* adds one to it for a key that was absent and none for one that was
\* present, removeItem takes one from it for a key that was present.
C24_StorageIsAMap ==
    [][ /\ clast'.op = "setItem"
            => /\ GetItemAfter(clast'.key) = <<clast'.text>>
               /\ \A key \in StoreKeySet \ {clast'.key} :
                    GetItemAfter(key) = GetItemBefore(key)
               /\ LengthAfter = LengthBefore +
                    (IF GetItemBefore(clast'.key) = <<>> THEN 1 ELSE 0)
        /\ clast'.op = "removeItem"
            => /\ GetItemAfter(clast'.key) = <<>>
               /\ \A key \in StoreKeySet \ {clast'.key} :
                    GetItemAfter(key) = GetItemBefore(key)
               /\ LengthAfter = LengthBefore -
                    (IF GetItemBefore(clast'.key) = <<>> THEN 0 ELSE 1)
        /\ clast'.op = "clearStore"
            => /\ \A key \in StoreKeySet : GetItemAfter(key) = <<>>
               /\ LengthAfter = 0
        /\ LengthAfter =
            Cardinality({key \in StoreKeySet : GetItemAfter(key) # <<>>})
      ]_vars

\* setItem has replaced the text of a key the store held, next to another
\* key, in a directory of files
C24_Witness ==
    /\ backend = "fs"
    /\ clast.op = "setItem"
    /\ clast.found
    /\ Len(stores["a"]) = 2
    /\ BackendGetItem(backend, stores["a"], clast.key) = <<clast.text>>

----------------------------------------------------------------------------
(* The state machine of the chained pool with local keys that hold a dot *)

\* the local keys "k.b" and "k.c"
DottedLocalKeys == {<<"k", ".", "b">>, <<"k", ".", "c">>}

\* the compound keys "<ns>.k.b" and "<ns>.k.c" of the registered namespaces
DottedKeys == {GetNamespaceKey(Namespace(p), k) :
                    p \in Pools, k \in DottedLocalKeys}

NextDotted ==
    \/ \E key \in DottedKeys : \E arg \in ChainArgs : ChainGet(key, arg)
    \/ \E key \in DottedKeys : ChainDelete(key)
    \/ \E key \in DottedKeys : ChainHas(key)
    \/ ChainClear

SpecDotted == InitPools /\ [][NextDotted]_vars

----------------------------------------------------------------------------
(* C25 *)

\* the store of the pool of namespace ns holds an entry whose key is the
\* compound key, that is the namespace, a dot and the whole local key
HoldsCompoundKey(st, key) ==
    \E p \in Pools : \E k \in DottedLocalKeys :
        /\ key = GetNamespaceKey(Namespace(p), k)
        /\ \E i \in 1..Len(st[OwnStore(p)]) : st[OwnStore(p)][i].key = key

\* C25: a get through the chained pool on "<ns>.<rest>", rest holding a dot,
\* leaves the entry under the namespace and the whole of rest; and when no
\* entry is held under the whole of rest the get is a miss that runs the
\* callback, whatever is held under another rest.
C25_SplitOnFirstDot ==
    [][ (clast'.op = "get" /\ clast'.key \in DottedKeys)
        => /\ clast'.err = "none"
           /\ HoldsCompoundKey(stores', clast'.key)
           /\ ~HoldsCompoundKey(stores, clast'.key) => clast'.calls = 1
      ]_vars

----------------------------------------------------------------------------
(* C27 *)

\* what the caller of an operation observes: the stores it leaves, the value
\* it returns, how often the callback ran, the error thrown
Observed(res) == <<res.stores, res.ret, res.calls, res.err>>
ObservedNow == <<stores', clast'.ret, clast'.calls, clast'.err>>

\* C27: a get, has or delete through the chained pool on "<ns>.<k>", ns
\* registered and k without a dot, leaves the stores, returns the value, runs
\* the callback and throws as the same operation on k does on the pool of ns:
\* step by step, and so for every sequence of them.
C27_ChainedPoolIsTransparent ==
    [][ \A p \in Pools : \A k \in LocalKeys :
          clast'.key = PoolKey(p, k)
          => /\ clast'.op = "get"
                  => \E arg \in ChainArgs :
                        ObservedNow =
                          Observed(PoolGet(rev, shared, stores, p, k, arg, now))
             /\ clast'.op = "has"
                  => ObservedNow = Observed(PoolHas(shared, stores, p, k))
             /\ clast'.op = "delete"
                  => ObservedNow =
                        Observed(PoolDelete(backend, shared, stores, p, k))
      ]_vars

\* on one store: has through the chained pool has given false for the key of
\* pool "b" while the store holds the key of pool "a"
C27_Witness ==
    /\ shared
    /\ clast.op = "has"
    /\ clast.key = PoolKey("b", <<"k">>)
    /\ clast.ret = False
    /\ clast.err = "none"
    /\ HasIn(stores, "a", <<"k">>)

----------------------------------------------------------------------------
(* C26: a ChainedCachePool constructed with two pools of one namespace.     *)
(* Pools "a" and "dup" both have namespace "a" and each has a store of its  *)
(* own; either may come first in the constructor's arguments.  The pools    *)
(* are also used directly, which is how the store of the later one gets     *)
(* entries.                                                                 *)

DuplicateOrders == {<<"a", "dup", "b">>, <<"dup", "a", "b">>}

InitDuplicate ==
    /\ rev \in Revisions
    /\ storage = <<>>
    /\ now = StartNow
    /\ last = NoOp
    /\ shared = FALSE
    /\ backend = "memory"
    /\ cachePools \in DuplicateOrders
    /\ stores = EmptyStores
    /\ clast = CNoOp
    /\ IdleItem
    /\ IdleAsync

\* pool.get(k, fn) on a NamespaceCachePool itself, not through the chain
DirectGet(p, k, arg) ==
    LET res == PoolGet(rev, shared, stores, p, k, arg, now)
    IN /\ stores' = res.stores
       /\ clast' = [CNoOp EXCEPT !.op = "poolGet", !.key = PoolKey(p, k),
                                 !.pool = p, !.calls = res.calls,
                                 !.ret = res.ret, !.err = res.err]
       /\ UNCHANGED <<rev, storage, now, last, shared, backend, cachePools,
                      itemVars, pending>>

NextDuplicate ==
    \/ \E key \in RegisteredKeys : \E arg \in ChainArgs : ChainGet(key, arg)
    \/ \E key \in RegisteredKeys : ChainDelete(key)
    \/ \E key \in RegisteredKeys : ChainHas(key)
    \/ \E p \in {"a", "dup"} : \E k \in LocalKeys : \E arg \in ChainArgs :
          DirectGet(p, k, arg)

SpecDuplicate == InitDuplicate /\ [][NextDuplicate]_vars

\* the two pools of namespace "a", by their place in the constructor's
\* arguments
HasDuplicate == cachePools \in DuplicateOrders
FirstDuplicate == cachePools[1]
LaterDuplicate == cachePools[2]

\* C26: with two pools of one namespace registered, a get, has or delete
\* through the chained pool on a key of that namespace does what the same
\* operation does on the pool registered first, and leaves the store of the
\* later pool as it was.
C26_FirstMatchWins ==
    [][ \A k \in LocalKeys :
          (HasDuplicate /\ clast'.key = GetNamespaceKey(NsA, k))
          => /\ clast'.op = "get"
                  => \E arg \in ChainArgs :
                        ObservedNow =
                          Observed(PoolGet(rev, shared, stores,
                                           FirstDuplicate, k, arg, now))
             /\ clast'.op = "has"
                  => ObservedNow =
                        Observed(PoolHas(shared, stores, FirstDuplicate, k))
             /\ clast'.op = "delete"
                  => ObservedNow =
                        Observed(PoolDelete(backend, shared, stores,
                                            FirstDuplicate, k))
             /\ clast'.op \in {"get", "has", "delete"}
                  => stores'[LaterDuplicate] = stores[LaterDuplicate]
      ]_vars

\* has through the chained pool has given false for a key that the store of
\* the later pool holds and the store of the first pool does not
C26_Witness ==
    /\ HasDuplicate
    /\ clast.op = "has"
    /\ clast.key = GetNamespaceKey(NsA, <<"k">>)
    /\ clast.ret = False
    /\ HasIn(stores, LaterDuplicate, <<"k">>)
    /\ ~HasIn(stores, FirstDuplicate, <<"k">>)

----------------------------------------------------------------------------
(* C28 *)

\* C28: after clear() of a NamespaceCachePool no key of its store contains
\* the pool's namespace, and has(k) is false for every local key k: no
\* matching key is passed over, however many there were.
C28_NamespaceClearIsComplete ==
    [][ clast'.op = "poolClear"
        => LET p == clast'.pool
               s == stores'[OwnStore(p)]
           IN /\ \A i \in 1..Len(s) : ~Includes(s[i].key, Namespace(p))
              /\ \A k \in LocalKeys : ~HasIn(stores', p, k) ]_vars

\* clear() of the "tuple" revision has removed two keys from one store, and
\* a key without the namespace is still there
C28_Witness ==
    /\ rev = "tuple"
    /\ clast.op = "poolClear"
    /\ clast.pool = "a"
    /\ clast.removed = 2
    /\ Len(stores["a"]) = 1

----------------------------------------------------------------------------
(* get with an asynchronous callback.  get does not await: fn() runs up to  *)
(* its first await and returns a pending Promise, get stores and returns at *)
(* once, and the rest of the callback runs later without touching the       *)
(* store.  JavaScript runs get to its end before anything else runs, so a   *)
(* get is one step; the callbacks in flight are in pending.                 *)

\* at most so many callbacks are in flight
MaxPending == 2

Promise == <<"promise", 0>>
\* JSON.stringify of a Promise, which has no own enumerable fields: "{}"
EmptyObject == <<"object", 0>>

\* item[i] of what JSON.parse gave; "{}" parsed has no elements and is held
\* as the tuple without elements
TupleElement(item, i) == IF Len(item) >= i THEN item[i] ELSE Undef

\* revision "tuple": item = fn() is the Promise, "{}" is stored, and
\* item[0] of a Promise is undefined
GetTupleAsync(s, key, arg, t) ==
    LET got == GetItemTuple(s, key)
    IN IF got = <<>> \/ ExpiredTuple(got[1], t)
       THEN [storage |-> StorageSetItem(s, key, <<>>),
             ret |-> Undef, calls |-> 1]
       ELSE [storage |-> s, ret |-> TupleElement(got[1], 1), calls |-> 0]

\* revision "object": the callback may assign item.expiresAt before its
\* first await; item.value is the Promise and is written as {}
GetObjectAsync(s, key, arg, t) ==
    LET item == GetItemObject(s, key)
    IN IF MissObject(item, t)
       THEN LET called == FnObject([item EXCEPT !.hit = True], arg, t)
                fresh == [called EXCEPT !.value = Promise]
                text == [StringifyObject(fresh) EXCEPT !.value = EmptyObject]
            IN [storage |-> StorageSetItem(s, key, text),
                ret |-> fresh.value, calls |-> 1]
       ELSE [storage |-> s, ret |-> item.value, calls |-> 0]

CachePoolGetAsync(r, s, key, arg, t) ==
    IF r = "tuple"
    THEN GetTupleAsync(s, key, arg, t)
    ELSE GetObjectAsync(s, key, arg, t)

AsyncArgs == [val : {Str(1)}, ttl : TtlChoices]

InitAsync ==
    /\ rev \in {"tuple", "object"}
    /\ storage = <<>>
    /\ now = StartNow
    /\ last = NoOp
    /\ IdleChain
    /\ IdleItem
    /\ IdleAsync

\* pool.get(k, async fn)
GetAsync(p, k, arg) ==
    LET key == PoolKey(p, k)
        res == CachePoolGetAsync(rev, storage, key, arg, now)
    IN /\ Len(pending) < MaxPending
       /\ storage' = res.storage
       /\ pending' = IF res.calls = 1 THEN Append(pending, key) ELSE pending
       /\ last' = [NoOp EXCEPT !.op = "getAsync", !.pool = p, !.key = key,
                                !.seen = Seen(rev, storage, key),
                                !.calls = res.calls, !.ret = res.ret,
                                !.at = now]
       /\ UNCHANGED <<rev, now, chainVars, itemVars>>

\* the awaited promise of the i-th callback in flight settles and the
\* callback runs to its end
Settle(i) ==
    /\ pending' = SubSeq(pending, 1, i - 1)
                       \o SubSeq(pending, i + 1, Len(pending))
    /\ last' = [NoOp EXCEPT !.op = "settle", !.key = pending[i]]
    /\ UNCHANGED <<rev, storage, now, chainVars, itemVars>>

NextAsync ==
    \/ \E p \in Pools : \E k \in LocalKeys : \E arg \in AsyncArgs :
          GetAsync(p, k, arg)
    \/ \E i \in 1..Len(pending) : Settle(i)
    \/ \E p \in Pools : \E k \in LocalKeys : Delete(p, k)
    \/ \E p \in Pools : \E k \in LocalKeys : Has(p, k)
    \/ \E p \in Pools : Clear(p)
    \/ Tick

SpecAsync == InitAsync /\ [][NextAsync]_vars

\* a callback of a get on that key is in flight
InFlight(key) == \E i \in 1..Len(pending) : pending[i] = key

\* C29: a get on a key for which the callback of an earlier get is still in
\* flight observes a miss and calls its own callback.
C29_NoSingleFlight ==
    [][ (last'.op = "getAsync" /\ InFlight(last'.key)) => last'.calls = 1 ]_vars

----------------------------------------------------------------------------
(* C30 *)

\* C30: a get that misses leaves its entry present and not expired, so a
\* get on the same key that follows at the same time is a hit: it does not
\* call the callback and returns the value the first get returned.
C30_MissLeavesFresh ==
    [][ (rev # "object" /\ GetAfterGet /\ last.calls = 1
            /\ last'.at = last.at)
        => (last'.calls = 0 /\ last'.ret = last.ret) ]_vars

----------------------------------------------------------------------------
(* C31 *)

\* C31: when the latest assignment to the item's expiry was
\* expiresAt = null, the item is not expired at any later time: hit is true.
C31_ExpiresAtNullNeverExpires ==
    (ilast.op = "hit" /\ ilast.never) => ilast.hit = True

----------------------------------------------------------------------------
(* get on a store that holds any JSON text, or no JSON at all.  Here a      *)
(* stored string is held as what it is: not JSON, or the JSON text of null, *)
(* a number, a string, an array or an object.  An object is the sequence of *)
(* its fields <<key, value, fields of the value>>, the last part being <<>> *)
(* unless the value is itself an object.                                    *)

Garbage == [kind |-> "garbage"]
JsonNull == [kind |-> "null"]
JsonNumber == [kind |-> "number", value |-> Num(0)]
\* a JSON string of two characters
JsonString == [kind |-> "string", chars |-> <<Str(8), Str(9)>>]
JsonArray(items) == [kind |-> "array", items |-> items]
JsonObject(fields) == [kind |-> "object", fields |-> fields]

\* {} ; {"hit": true} ; {"a": {"value": "8", "hit": true}}
JsonEmpty == JsonObject(<<>>)
JsonHitOnly == JsonObject(<< <<"hit", True, <<>>>> >>)
JsonNested ==
    JsonObject(<< <<"a", EmptyObject,
                    << <<"value", Str(8)>>, <<"hit", True>> >> >> >>)

\* the strings some other writer may have left in the store
ForeignTexts ==
    {Garbage, JsonNull, JsonNumber, JsonString, JsonEmpty, JsonHitOnly,
     JsonNested}

\* item[i] of what JSON.parse gave, i counted from 0
JsonIndex(item, i) ==
    CASE item.kind = "array" -> TupleElement(item.items, i + 1)
      [] item.kind = "string" -> TupleElement(item.chars, i + 1)
      [] OTHER -> Undef

\* revision "tuple": getItem and get.  JSON.parse throws a SyntaxError on a
\* string that is not JSON, before get has changed anything
GetTupleText(s, key, arg, t) ==
    LET raw == StorageGetItem(s, key)
        miss == LET item == FnTuple(arg, t)
                IN [storage |-> StorageSetItem(s, key,
                                    JsonArray(StringifyTuple(item))),
                    ret |-> item[1], calls |-> 1, err |-> "none"]
    IN CASE raw = <<>> -> miss
         [] raw # <<>> /\ raw[1].kind = "garbage" ->
              [storage |-> s, ret |-> Undef, calls |-> 0,
               err |-> "SyntaxError"]
         [] raw # <<>> /\ raw[1].kind = "null" -> miss
         [] OTHER ->
              IF LessThan(Coalesce(JsonIndex(raw[1], 1), Inf), t)
              THEN miss
              ELSE [storage |-> s, ret |-> JsonIndex(raw[1], 0),
                    calls |-> 0, err |-> "none"]

\* the calls of the reviver, children before their parent, the whole text
\* last under the key ""
ArrayKey(i) == IF i = 1 THEN "0" ELSE "1"
RECURSIVE FieldVisits(_)
FieldVisits(fields) ==
    IF fields = <<>> THEN <<>>
    ELSE Head(fields)[3] \o << <<Head(fields)[1], Head(fields)[2]>> >>
            \o FieldVisits(Tail(fields))

Visits(text) ==
    CASE text.kind = "array" ->
            [i \in 1..Len(text.items) |-> <<ArrayKey(i), text.items[i]>>]
                \o << <<"", EmptyObject>> >>
      [] text.kind = "object" ->
            FieldVisits(text.fields) \o << <<"", EmptyObject>> >>
      [] text.kind = "string" -> << <<"", Str(8)>> >>
      [] text.kind = "number" -> << <<"", text.value>> >>
      [] OTHER -> << <<"", Null>> >>

\* the reviver: if (key in cacheItem) cacheItem[key] = value
RECURSIVE Revive(_, _)
Revive(cacheItem, visits) ==
    IF visits = <<>> THEN cacheItem
    ELSE LET key == Head(visits)[1]
             value == Head(visits)[2]
         IN Revive(IF key \in DOMAIN cacheItem
                   THEN [cacheItem EXCEPT ![key] = value]
                   ELSE cacheItem,
                   Tail(visits))

ObjectText(item) ==
    JsonObject(<< <<"value", item.value, <<>>>>,
                  <<"expiresAt", item.expiresAt, <<>>>>,
                  <<"hit", item.hit, <<>>>> >>)

\* revision "object": #getItem and get
GetObjectText(s, key, arg, t) ==
    LET raw == StorageGetItem(s, key)
    IN IF raw # <<>> /\ raw[1].kind = "garbage"
       THEN [storage |-> s, ret |-> Undef, calls |-> 0,
             err |-> "SyntaxError"]
       ELSE LET item == IF raw = <<>> THEN NewItemObject
                        ELSE Revive(NewItemObject, Visits(raw[1]))
            IN IF MissObject(item, t)
               THEN LET called == FnObject([item EXCEPT !.hit = True], arg, t)
                        fresh == [called EXCEPT !.value = arg.val]
                    IN [storage |-> StorageSetItem(s, key,
                                        ObjectText(StringifyObject(fresh))),
                        ret |-> fresh.value, calls |-> 1, err |-> "none"]
               ELSE [storage |-> s, ret |-> item.value, calls |-> 0,
                     err |-> "none"]

CachePoolGetText(r, s, key, arg, t) ==
    IF r = "tuple"
    THEN GetTupleText(s, key, arg, t)
    ELSE GetObjectText(s, key, arg, t)

InitText ==
    /\ rev \in {"tuple", "object"}
    /\ storage = <<>>
    /\ now = StartNow
    /\ last = NoOp
    /\ IdleChain
    /\ IdleItem
    /\ IdleAsync

\* pool.get(k, fn)
GetText(p, k, arg) ==
    LET key == PoolKey(p, k)
        res == CachePoolGetText(rev, storage, key, arg, now)
    IN /\ storage' = res.storage
       /\ last' = [NoOp EXCEPT !.op = "getText", !.pool = p, !.key = key,
                                !.val = arg.val, !.calls = res.calls,
                                !.ret = res.ret, !.err = res.err,
                                !.at = now]
       /\ UNCHANGED <<rev, now, chainVars, itemVars, pending>>

\* storage.setItem(key, text) by another user of the store
SetForeignText(p, k, text) ==
    /\ storage' = StorageSetItem(storage, PoolKey(p, k), text)
    /\ last' = [NoOp EXCEPT !.op = "setItem", !.pool = p,
                             !.key = PoolKey(p, k)]
    /\ UNCHANGED <<rev, now, chainVars, itemVars, pending>>

NextText ==
    \/ \E p \in Pools : \E k \in LocalKeys : \E arg \in FnArgs :
          GetText(p, k, arg)
    \/ \E p \in Pools : \E k \in LocalKeys : \E text \in ForeignTexts :
          SetForeignText(p, k, text)
    \/ Tick

SpecText == InitText /\ [][NextText]_vars

\* the envelope of the revision: [value] or [value, expiry], or an object of
\* exactly value, expiresAt and hit
FieldKeys(fields) == [i \in 1..Len(fields) |-> fields[i][1]]
IsEnvelope(r, text) ==
    IF r = "tuple"
    THEN text.kind = "array" /\ Len(text.items) \in {1, 2}
    ELSE /\ text.kind = "object"
         /\ FieldKeys(text.fields) = <<"value", "expiresAt", "hit">>

\* C32: a get that finds at its key a string that is not an envelope either
\* calls the callback, stores an envelope in its place and returns the
\* callback's value, or throws and leaves the store as it was.
C32_MalformedIsMissOrError ==
    [][ LET raw == StorageGetItem(storage, last'.key)
        IN (last'.op = "getText" /\ raw # <<>> /\ ~IsEnvelope(rev, raw[1]))
           => \/ /\ last'.err = "none"
                 /\ last'.calls = 1
                 /\ last'.ret = last'.val
                 /\ IsEnvelope(rev, StorageGetItem(storage', last'.key)[1])
              \/ /\ last'.err # "none"
                 /\ last'.calls = 0
                 /\ storage' = storage ]_vars

----------------------------------------------------------------------------
(* CachePool on a store whose operations may fail, as those of              *)
(* FilesystemStorage do on a permission error.  fault names the store       *)
(* operation that throws during the pool operation, "none" for none; a      *)
(* store operation that throws leaves the store as it was.                  *)

Faults == {"none", "getItem", "setItem", "removeItem", "clear"}
StoreError == "EACCES"

ThrownBy(s, calls) ==
    [storage |-> s, ret |-> Undef, calls |-> calls, err |-> StoreError]
Returned(res) ==
    [storage |-> res.storage, ret |-> res.ret, calls |-> res.calls,
     err |-> "none"]

GetSwallowsSetItemFailure(s, key, arg, t, fault) ==
    LET res == GetTuple(s, key, arg, t)
    IN CASE fault = "getItem" -> ThrownBy(s, 0)
         [] fault = "setItem" /\ res.calls = 1 ->
              [storage |-> s, ret |-> res.ret, calls |-> 1, err |-> "none"]
         [] OTHER -> Returned(res)

\* get: getItem throws before fn is called, setItem after; get has no try
FaultyGet(s, key, arg, t, fault) ==
    LET res == GetTuple(s, key, arg, t)
    IN CASE fault = "getItem" -> ThrownBy(s, 0)
         [] fault = "setItem" /\ res.calls = 1 -> ThrownBy(s, 1)
         [] OTHER -> Returned(res)

\* delete: this._storage.removeItem(key)
FaultyDelete(s, key, fault) ==
    IF fault = "removeItem"
    THEN ThrownBy(s, 0)
    ELSE [storage |-> CachePoolDelete(s, key), ret |-> Undef, calls |-> 0,
          err |-> "none"]

\* has: null != this._storage.getItem(key)
FaultyHas(s, key, fault) ==
    IF fault = "getItem"
    THEN ThrownBy(s, 0)
    ELSE [storage |-> s, ret |-> IF CachePoolHas(s, key) THEN True ELSE False,
          calls |-> 0, err |-> "none"]

\* clear: this._storage.clear()
FaultyClear(s, fault) ==
    IF fault = "clear"
    THEN ThrownBy(s, 0)
    ELSE [storage |-> CachePoolClear(s), ret |-> Undef, calls |-> 0,
          err |-> "none"]

InitFaulty ==
    /\ rev = "tuple"
    /\ storage = <<>>
    /\ now = StartNow
    /\ last = NoOp
    /\ IdleChain
    /\ IdleItem
    /\ IdleAsync

\* what the caller of a pool operation on the failing store observed
FaultObserved(op, p, key, val, res, fault) ==
    [NoOp EXCEPT !.op = op, !.pool = p, !.key = key, !.val = val,
                 !.calls = res.calls, !.ret = res.ret, !.err = res.err,
                 !.fault = fault, !.at = now]

GetFaulty(p, k, arg, fault) ==
    LET key == PoolKey(p, k)
        res == FaultyGet(storage, key, arg, now, fault)
    IN /\ storage' = res.storage
       /\ last' = FaultObserved("get", p, key, arg.val, res, fault)
       /\ UNCHANGED <<rev, now, chainVars, itemVars, pending>>

DeleteFaulty(p, k, fault) ==
    LET key == PoolKey(p, k)
        res == FaultyDelete(storage, key, fault)
    IN /\ storage' = res.storage
       /\ last' = FaultObserved("delete", p, key, Undef, res, fault)
       /\ UNCHANGED <<rev, now, chainVars, itemVars, pending>>

HasFaulty(p, k, fault) ==
    LET key == PoolKey(p, k)
        res == FaultyHas(storage, key, fault)
    IN /\ storage' = res.storage
       /\ last' = FaultObserved("has", p, key, Undef, res, fault)
       /\ UNCHANGED <<rev, now, chainVars, itemVars, pending>>

ClearFaulty(fault) ==
    LET res == FaultyClear(storage, fault)
    IN /\ storage' = res.storage
       /\ last' = FaultObserved("clear", "a", <<>>, Undef, res, fault)
       /\ UNCHANGED <<rev, now, chainVars, itemVars, pending>>

NextFaulty ==
    \/ \E p \in Pools : \E k \in LocalKeys : \E arg \in FnArgs :
       \E fault \in Faults : GetFaulty(p, k, arg, fault)
    \/ \E p \in Pools : \E k \in LocalKeys : \E fault \in Faults :
          DeleteFaulty(p, k, fault)
    \/ \E p \in Pools : \E k \in LocalKeys : \E fault \in Faults :
          HasFaulty(p, k, fault)
    \/ \E fault \in Faults : ClearFaulty(fault)
    \/ Tick

SpecFaulty == InitFaulty /\ [][NextFaulty]_vars

\* the store operations a pool operation calls: get calls setItem after it
\* has called fn
StoreCalls(op, calls) ==
    CASE op = "get" -> {"getItem"} \cup (IF calls = 1 THEN {"setItem"} ELSE {})
      [] op = "has" -> {"getItem"}
      [] op = "delete" -> {"removeItem"}
      [] op = "clear" -> {"clear"}
      [] OTHER -> {}

\* C33: when a store operation that a pool operation calls fails, the pool
\* operation throws that failure, returns nothing and leaves the store as it
\* was; a get whose setItem failed has called fn and does not return its
\* value.  When none fails, nothing is thrown.
C33_StoreFailurePropagates ==
    [][ last'.op \in {"get", "has", "delete", "clear"}
        => IF last'.fault \in StoreCalls(last'.op, last'.calls)
           THEN /\ last'.err = StoreError
                /\ last'.ret = Undef
                /\ storage' = storage
           ELSE last'.err = "none" ]_vars

\* a get that missed has called fn, its setItem failed, and it has thrown
C33_Witness ==
    /\ last.op = "get"
    /\ last.fault = "setItem"
    /\ last.calls = 1
    /\ last.err = StoreError
    /\ last.ret = Undef
    /\ StorageGetItem(storage, last.key) = <<>>

----------------------------------------------------------------------------
(* C34: a MemoryStorage (storage) and a MapStorage (the store of pool "a")  *)
(* that are given the same setItem, removeItem and clear calls.             *)

InitBoth ==
    /\ rev = "tuple"
    /\ storage = <<>>
    /\ now = StartNow
    /\ last = NoOp
    /\ shared = FALSE
    /\ backend = "map"
    /\ cachePools = <<"a", "b">>
    /\ stores = EmptyStores
    /\ clast = CNoOp
    /\ IdleItem
    /\ IdleAsync

SetItemBoth(key, value) ==
    /\ storage' = StorageSetItem(storage, key, value)
    /\ stores' = [stores EXCEPT !["a"] = MapSetItem(stores["a"], key, value)]
    /\ clast' = [CNoOp EXCEPT !.op = "setItem", !.key = key, !.text = value,
                    !.found = StorageGetItem(storage, key) # <<>>]
    /\ UNCHANGED <<rev, now, last, shared, backend, cachePools, itemVars,
                   pending>>

RemoveItemBoth(key) ==
    /\ storage' = StorageRemoveItem(storage, key)
    /\ stores' = [stores EXCEPT
                    !["a"] = MapRemoveItem(stores["a"], key).storage]
    /\ clast' = [CNoOp EXCEPT !.op = "removeItem", !.key = key,
                    !.found = StorageGetItem(storage, key) # <<>>]
    /\ UNCHANGED <<rev, now, last, shared, backend, cachePools, itemVars,
                   pending>>

ClearBoth ==
    /\ storage' = StorageClear(storage)
    /\ stores' = [stores EXCEPT !["a"] = MapClear(stores["a"])]
    /\ clast' = [CNoOp EXCEPT !.op = "clearStore",
                               !.removed = Len(storage)]
    /\ UNCHANGED <<rev, now, last, shared, backend, cachePools, itemVars,
                   pending>>

NextBoth ==
    \/ \E key \in StoreKeySet : \E value \in StoreTexts :
          SetItemBoth(key, value)
    \/ \E key \in StoreKeySet : RemoveItemBoth(key)
    \/ ClearBoth

SpecBoth == InitBoth /\ [][NextBoth]_vars

\* the indices key(i) is asked for: one below the first, and up to one past
\* the last that can be held
KeyIndices == -1..Cardinality(StoreKeySet)

\* C34: after the same calls, getItem of every key, length, and key of every
\* index, in range or not, give the same on the MemoryStorage and on the
\* MapStorage.
C34_MemoryAndMapAgree ==
    /\ \A key \in StoreKeySet :
          StorageGetItem(storage, key) = MapGetItem(stores["a"], key)
    /\ StorageLength(storage) = MapLength(stores["a"])
    /\ \A i \in KeyIndices : StorageKey(storage, i) = MapKey(stores["a"], i)

\* setItem has replaced the value of the key that was set first of three
C34_Witness ==
    /\ backend = "map"
    /\ clast.op = "setItem"
    /\ clast.found
    /\ StorageLength(storage) = 3
    /\ StorageKey(storage, 0) = <<clast.key>>
    /\ StorageGetItem(storage, clast.key) = <<clast.text>>
    /\ StorageKey(storage, 3) = <<>>

====
